---- MODULE Spec2Model ----
(***************************************************************************)
(* Infra Resilience Explorer (package ires): rooted trees, binary-lifting  *)
(* LCA with path sums, induced tree capacities and edge congestion, the    *)
(* shortest-path-tree oracle, the cut extractor, the MWU driver (run_mwu)  *)
(* and the report assembly.                                                *)
(*                                                                         *)
(* Conventions.  Node labels are the integers 1..NumNodes (the code uses   *)
(* strings; only equality and the total order <= are used).  None is 0.    *)
(* A Python dict whose iteration order is read is a sequence of            *)
(* <<key, value>> pairs in insertion order.  Capacities are integers, on   *)
(* which the code's float additions and subtractions are exact; a quotient *)
(* a / b is the pair <<a, b>> (see Ratio), +inf is Inf.                    *)
(***************************************************************************)
EXTENDS Integers, Sequences, FiniteSets, TLC

VARIABLES
  pc,         \* position of the modelled run
  in_root,    \* Tree.__init__: argument root
  in_parent,  \* Tree.__init__: argument parent (dict, insertion order)
  tree,       \* the Tree object (under construction or built)
  queue,      \* Tree.__init__: the local deque
  query,      \* last LCA query <<u, v, result>>
  graph,      \* nx.Graph: [nodes, adj] in insertion order
  c_t,        \* result of compute_tree_capacities
  cong,       \* result of compute_edge_congestion
  lines,      \* edge-list lines read by load_graph so far: <<u, v, w>>
  via,        \* how the evaluated tree was made: "tree" | "spt" | "none"
  mwu,        \* run_mwu locals
  report,     \* report.json payload (mixture and bottleneck_cuts)
  in_lengths  \* shortest_path_tree: argument lengths (dict)

vars == <<pc, in_root, in_parent, tree, queue, query, graph, c_t, cong, lines, via, mwu, report,
         in_lengths>>

\* ---------------------------------------------------------------- bounds
NumNodes == 4
MaxBfsLen == 6
MaxEdges == 4
MaxCap == 2
CapNodes == 3
MaxNegCap == 2
MaxCapLines == 3
MaxPosCap == 1
MaxLen == 2
MwuNodes == 3
MaxIters == 2
MaxCands == 2
MaxWeight == 2
MaxStored == 2

Labels == 1..NumNodes
None == 0
\* Result of a failed dict lookup (KeyError) inside an operator.
KeyErr == -1

\* ------------------------------------------------------- dicts as sequences
Keys(d) == {d[i][1] : i \in 1..Len(d)}
KeySeq(d) == [i \in 1..Len(d) |-> d[i][1]]
Has(d, k) == \E i \in 1..Len(d) : d[i][1] = k
Get(d, k) == IF Has(d, k) THEN d[CHOOSE i \in 1..Len(d) : d[i][1] = k][2] ELSE KeyErr
\* d[k] = v : overwrite in place, or append a new key.
Put(d, k, v) ==
  IF Has(d, k) THEN [i \in 1..Len(d) |-> IF d[i][1] = k THEN <<k, v>> ELSE d[i]]
  ELSE Append(d, <<k, v>>)
\* d.setdefault(k, v)
SetDefault(d, k, v) == IF Has(d, k) THEN d ELSE Append(d, <<k, v>>)

RECURSIVE SeqSum(_)
SeqSum(s) == IF s = <<>> THEN 0 ELSE Head(s) + SeqSum(Tail(s))

Reverse(s) == [i \in 1..Len(s) |-> s[Len(s) + 1 - i]]

InSeq(s, x) == \E i \in 1..Len(s) : s[i] = x

\* ------------------------------------------------------------------ Tree
\* children: defaultdict(list) filled in parent.items() order.
RECURSIVE ChildrenOf(_, _)
ChildrenOf(parent, p) ==
  IF parent = <<>> THEN <<>>
  ELSE LET rest == ChildrenOf(Tail(parent), p)
       IN IF Head(parent)[2] = p THEN <<Head(parent)[1]>> \o rest ELSE rest

\* Tree.__init__ up to the BFS loop (lines 13-26); ok = FALSE is the raise.
TreeStart(root, parent) ==
  IF ~Has(parent, root)
    THEN [ok |-> FALSE, t |-> <<>>, q |-> <<>>]
    ELSE [ok |-> TRUE,
          t |-> [ok |-> TRUE,
                 root |-> root,
                 parent |-> parent,
                 children |-> [p \in Labels |-> ChildrenOf(parent, p)],
                 depth |-> (root :> 0),
                 bfs_order |-> <<>>],
          q |-> <<root>>]

\* The children loop of one BFS iteration (lines 30-31):
\* depth[child] = depth[u] + 1, with depth[u] read again for every child
\* (u can be one of its own children).
RECURSIVE SetDepths(_, _, _)
SetDepths(depth, u, kids) ==
  IF kids = <<>> THEN depth
  ELSE SetDepths((Head(kids) :> depth[u] + 1) @@ depth, u, Tail(kids))

\* One iteration of `while queue` (lines 27-32) on <<tree, queue>>.
BfsStep(t, q) ==
  LET u == Head(q)
      kids == t.children[u]
  IN [t |-> [t EXCEPT !.bfs_order = Append(@, u),
                      !.depth = SetDepths(@, u, kids)],
      q |-> Tail(q) \o kids]

\* missing_depth (line 34)
missing_depth(t) == {n \in Keys(t.parent) : n \notin DOMAIN t.depth}

\* The whole loop, for parent maps on which it ends.
RECURSIVE BfsLoop(_, _)
BfsLoop(t, q) ==
  IF q = <<>> THEN t
  ELSE LET s == BfsStep(t, q) IN BfsLoop(s.t, s.q)

NoTree == [ok |-> FALSE]

\* Tree.from_parent_map / Tree.__init__ as a function: the Tree, or NoTree
\* when the constructor raises.
from_parent_map(root, parent) ==
  LET s == TreeStart(root, parent)
  IN IF ~s.ok THEN NoTree
     ELSE LET t == BfsLoop(s.t, s.q)
          IN IF missing_depth(t) # {} THEN NoTree ELSE t

\* Tree.nodes
nodes(t) == KeySeq(t.parent)

\* Tree.edges(): oriented (parent, child) in parent.items() order.
RECURSIVE EdgesOf(_)
EdgesOf(parent) ==
  IF parent = <<>> THEN <<>>
  ELSE LET rest == EdgesOf(Tail(parent))
       IN IF Head(parent)[2] # None
            THEN <<(<<Head(parent)[2], Head(parent)[1]>>)>> \o rest
            ELSE rest

edges(t) == EdgesOf(t.parent)

\* Tree.subtree_nodes: stack walk, stack.pop() takes the last element.
RECURSIVE SubtreeWalk(_, _, _)
SubtreeWalk(t, stack, out) ==
  IF stack = <<>> THEN out
  ELSE LET u == stack[Len(stack)]
       IN SubtreeWalk(t, SubSeq(stack, 1, Len(stack) - 1) \o t.children[u],
                      Append(out, u))

subtree_nodes(t, node) == SubtreeWalk(t, <<node>>, <<>>)

\* ------------------------------------------------------------------- LCA
\* math.ceil(math.log2(n)) for n >= 1
RECURSIVE CeilLog2From(_, _)
CeilLog2From(n, k) == IF 2^k >= n THEN k ELSE CeilLog2From(n, k + 1)

CeilLog2(n) == CeilLog2From(n, 0)

\* dict.get(key) on a level of the table: None for a missing key.
UpGet(level, n) == IF n \in DOMAIN level THEN level[n] ELSE None

\* self.up[k][n]: KeyErr for a missing key.
UpIdx(level, n) == IF n \in DOMAIN level THEN level[n] ELSE KeyErr

\* The table up[0..max_log] of LCA.__init__ (lines 18-26).
RECURSIVE UpTable(_, _, _)
UpTable(t, k, max_log) ==
  IF k = 0
    THEN (0 :> [n \in Keys(t.parent) |-> Get(t.parent, n)])
    ELSE LET prev == UpTable(t, k - 1, max_log)
             ns == {t.bfs_order[i] : i \in 1..Len(t.bfs_order)}
         IN prev @@ (k :> [n \in ns |->
                            LET mid == UpGet(prev[k - 1], n)
                            IN IF mid # None THEN UpGet(prev[k - 1], mid) ELSE None])

\* LCA.set_edge_weights: the prefix sums over bfs_order (lines 36-44).
\* weights is the dict (parent, child) -> value; a missing edge counts 0.
RECURSIVE PrefixFrom(_, _, _, _)
PrefixFrom(t, weights, order, prefix) ==
  IF order = <<>> THEN prefix
  ELSE LET node == Head(order)
       IN IF node = t.root THEN PrefixFrom(t, weights, Tail(order), prefix)
          ELSE LET parent == Get(t.parent, node)
                   w == IF Has(weights, <<parent, node>>)
                          THEN Get(weights, <<parent, node>>) ELSE 0
               IN PrefixFrom(t, weights, Tail(order),
                             (node :> (prefix[parent] + w)) @@ prefix)

set_edge_weights(L, weights) ==
  [L EXCEPT !.edge_weights = weights,
            !.prefix = PrefixFrom(L.tree, weights, L.tree.bfs_order,
                                  (L.tree.root :> 0))]

\* LCA.__init__
LCA(t) ==
  LET max_log == IF Len(t.bfs_order) > 0 THEN CeilLog2(Len(t.bfs_order)) ELSE 0
  IN set_edge_weights(
       [tree |-> t, max_log |-> max_log, up |-> UpTable(t, max_log, max_log),
        prefix |-> <<>>, edge_weights |-> <<>>],
       <<>>)

\* diff & (1 << k)
Bit(diff, k) == (diff \div (2^k)) % 2 = 1

\* First loop of lca (lines 53-57): lift u by the bits of diff.
RECURSIVE LiftBits(_, _, _, _)
LiftBits(L, u, diff, k) ==
  IF k > L.max_log THEN u
  ELSE IF Bit(diff, k)
         THEN LET nu == UpIdx(L.up[k], u)
              IN IF nu = None \/ nu = KeyErr THEN nu ELSE LiftBits(L, nu, diff, k + 1)
         ELSE LiftBits(L, u, diff, k + 1)

\* Second loop of lca (lines 61-64): k from max_log down to 0.
RECURSIVE LiftBoth(_, _, _, _)
LiftBoth(L, u, v, k) ==
  IF k < 0 THEN <<u, v>>
  ELSE LET uu == UpIdx(L.up[k], u)
           vv == UpIdx(L.up[k], v)
       IN IF uu = KeyErr \/ vv = KeyErr THEN <<KeyErr, KeyErr>>
          ELSE IF uu # vv THEN LiftBoth(L, uu, vv, k - 1)
          ELSE LiftBoth(L, u, v, k - 1)

\* Mutant of lca: the last line returns u instead of tree.parent[u].
lca_returns_u(L, a, b) ==
  LET d == L.tree.depth
      u0 == IF d[a] < d[b] THEN b ELSE a
      v0 == IF d[a] < d[b] THEN a ELSE b
      u1 == LiftBits(L, u0, d[u0] - d[v0], 0)
  IN IF u1 = v0 THEN u1
     ELSE IF u1 = None \/ u1 = KeyErr THEN KeyErr
     ELSE LiftBoth(L, u1, v0, L.max_log)[1]

\* LCA.lca
lca(L, a, b) ==
  LET d == L.tree.depth
      u0 == IF d[a] < d[b] THEN b ELSE a
      v0 == IF d[a] < d[b] THEN a ELSE b
      u1 == LiftBits(L, u0, d[u0] - d[v0], 0)
  IN IF u1 = v0 THEN u1
     ELSE IF u1 = None \/ u1 = KeyErr THEN KeyErr
     ELSE LET p == LiftBoth(L, u1, v0, L.max_log)
          IN IF p[1] = KeyErr THEN KeyErr ELSE Get(L.tree.parent, p[1])

\* Mutant of dist: the LCA's prefix is subtracted once instead of twice.
dist_subtracts_once(L, u, v) ==
  LET ancestor == lca(L, u, v)
  IN L.prefix[u] + L.prefix[v] - L.prefix[ancestor]

\* LCA.dist
dist(L, u, v) ==
  LET ancestor == lca(L, u, v)
  IN L.prefix[u] + L.prefix[v] - 2 * L.prefix[ancestor]

\* ----------------------------------------------------------------- graph
EmptyGraph == [nodes |-> <<>>, adj |-> [n \in Labels |-> <<>>]]

AddNode(g, n) == IF InSeq(g.nodes, n) THEN g ELSE [g EXCEPT !.nodes = Append(@, n)]

has_edge(g, u, v) == Has(g.adj[u], v)

\* One edge line of load_graph (lines 29-34): merge by summing, or add_edge.
load_edge(g, u, v, w) ==
  IF has_edge(g, u, v)
    THEN LET s == Get(g.adj[u], v) + w
         IN [g EXCEPT !.adj = [n \in Labels |->
                                 IF n = u THEN Put(g.adj[u], v, s)
                                 ELSE IF n = v THEN Put(g.adj[v], u, s)
                                 ELSE g.adj[n]]]
    ELSE LET g1 == AddNode(AddNode(g, u), v)
         IN [g1 EXCEPT !.adj = [n \in Labels |->
                                  IF n = u THEN Put(g.adj[u], v, w)
                                  ELSE IF n = v THEN Put(g.adj[v], u, w)
                                  ELSE g.adj[n]]]

\* Tuple order on edge keys.
KeyLess(a, b) == a[1] < b[1] \/ (a[1] = b[1] /\ a[2] < b[2])

\* io.edge_key
edge_key(u, v) == IF u <= v THEN <<u, v>> ELSE <<v, u>>

\* io.iter_edges: networkx yields each edge once, from its endpoint that
\* comes first in node order: (n, nbr, capacity).
RECURSIVE NbrEdges(_, _, _)
NbrEdges(n, nbrs, seen) ==
  IF nbrs = <<>> THEN <<>>
  ELSE LET rest == NbrEdges(n, Tail(nbrs), seen)
       IN IF Head(nbrs)[1] \notin seen
            THEN <<(<<n, Head(nbrs)[1], Head(nbrs)[2]>>)>> \o rest
            ELSE rest

RECURSIVE EdgesFrom(_, _, _)
EdgesFrom(g, ns, seen) ==
  IF ns = <<>> THEN <<>>
  ELSE NbrEdges(Head(ns), g.adj[Head(ns)], seen)
         \o EdgesFrom(g, Tail(ns), seen \cup {Head(ns)})

iter_edges(g) == EdgesFrom(g, g.nodes, {})

\* The dict comprehension {edge_key(u, v): f(w) for u, v, w in iter_edges}.
RECURSIVE KeyedBy(_)
KeyedBy(es) ==
  IF es = <<>> THEN <<>>
  ELSE Put(KeyedBy(SubSeq(es, 1, Len(es) - 1)),
           edge_key(es[Len(es)][1], es[Len(es)][2]), es[Len(es)][3])

capacities(g) == KeyedBy(iter_edges(g))

\* ------------------------------------------------------------ congestion
\* a / b on floats, kept exact: the pair <<a, b>>, b > 0.
Ratio(a, b) == <<a, b>>
\* float("inf")
Inf == <<1, 0>>
RatGE0(r) == r[1] * r[2] >= 0
RatEq(r, s) == r[1] * s[2] = s[1] * r[2] /\ (r[2] = 0 <=> s[2] = 0)

\* Mutant of AddLoop: only the endpoint u receives +w (add[v] += w is lost).
RECURSIVE AddLoop_one_endpoint(_, _, _)
AddLoop_one_endpoint(L, es, add) ==
  IF es = <<>> THEN [ok |-> TRUE, add |-> add]
  ELSE LET u == Head(es)[1]
           v == Head(es)[2]
           w == Head(es)[3]
       IN IF u \notin DOMAIN add \/ v \notin DOMAIN add THEN [ok |-> FALSE, add |-> add]
          ELSE LET ancestor == lca(L, u, v)
                   a1 == [add EXCEPT ![u] = @ + w]
               IN IF ancestor \notin DOMAIN add THEN [ok |-> FALSE, add |-> add]
                  ELSE AddLoop_one_endpoint(L, Tail(es),
                                            [a1 EXCEPT ![ancestor] = @ - 2 * w])

\* Mutant of AddLoop: the LCA is debited w instead of 2w.
RECURSIVE AddLoop_debits_w(_, _, _)
AddLoop_debits_w(L, es, add) ==
  IF es = <<>> THEN [ok |-> TRUE, add |-> add]
  ELSE LET u == Head(es)[1]
           v == Head(es)[2]
           w == Head(es)[3]
       IN IF u \notin DOMAIN add \/ v \notin DOMAIN add THEN [ok |-> FALSE, add |-> add]
          ELSE LET ancestor == lca(L, u, v)
                   a1 == [add EXCEPT ![u] = @ + w]
                   a2 == [a1 EXCEPT ![v] = @ + w]
               IN IF ancestor \notin DOMAIN add THEN [ok |-> FALSE, add |-> add]
                  ELSE AddLoop_debits_w(L, Tail(es), [a2 EXCEPT ![ancestor] = @ - w])

\* The edge loop of compute_tree_capacities (lines 18-22); add is a function
\* on tree.nodes.  A key outside add is a KeyError: ok = FALSE.
RECURSIVE AddLoop(_, _, _)
AddLoop(L, es, add) ==
  IF es = <<>> THEN [ok |-> TRUE, add |-> add]
  ELSE LET u == Head(es)[1]
           v == Head(es)[2]
           w == Head(es)[3]
       IN IF u \notin DOMAIN add \/ v \notin DOMAIN add THEN [ok |-> FALSE, add |-> add]
          ELSE LET ancestor == lca(L, u, v)
                   a1 == [add EXCEPT ![u] = @ + w]
                   a2 == [a1 EXCEPT ![v] = @ + w]
               IN IF ancestor \notin DOMAIN add THEN [ok |-> FALSE, add |-> add]
                  ELSE AddLoop(L, Tail(es), [a2 EXCEPT ![ancestor] = @ - 2 * w])

\* Mutant of TotalLoop: total[parent] += total[node] is lost, so c_t holds
\* add[node] and not the subtree sum.
RECURSIVE TotalLoop_no_propagation(_, _, _, _)
TotalLoop_no_propagation(t, order, total, ct) ==
  IF order = <<>> THEN [ok |-> TRUE, c_t |-> ct]
  ELSE LET node == Head(order)
           parent == Get(t.parent, node)
       IN IF parent = None THEN TotalLoop_no_propagation(t, Tail(order), total, ct)
          ELSE IF parent \notin DOMAIN total THEN [ok |-> FALSE, c_t |-> ct]
          ELSE TotalLoop_no_propagation(t, Tail(order), total,
                                        Put(ct, <<parent, node>>, total[node]))

\* The reverse-BFS loop (lines 26-30).
RECURSIVE TotalLoop(_, _, _, _)
TotalLoop(t, order, total, ct) ==
  IF order = <<>> THEN [ok |-> TRUE, c_t |-> ct]
  ELSE LET node == Head(order)
           parent == Get(t.parent, node)
       IN IF parent = None THEN TotalLoop(t, Tail(order), total, ct)
          ELSE IF parent \notin DOMAIN total THEN [ok |-> FALSE, c_t |-> ct]
          ELSE TotalLoop(t, Tail(order),
                         [total EXCEPT ![parent] = @ + total[node]],
                         Put(ct, <<parent, node>>, total[node]))

\* compute_tree_capacities: [ok, c_t]; ok = FALSE when a KeyError is raised.
compute_tree_capacities(g, t, L) ==
  LET r == AddLoop(L, iter_edges(g), [n \in Keys(t.parent) |-> 0])
  IN IF ~r.ok THEN [ok |-> FALSE, c_t |-> <<>>]
     ELSE TotalLoop(t, Reverse(t.bfs_order), r.add, <<>>)

\* The edge loop of compute_edge_congestion (lines 41-47).
RECURSIVE CongLoop(_, _, _)
CongLoop(L, es, congestions) ==
  IF es = <<>> THEN congestions
  ELSE LET u == Head(es)[1]
           v == Head(es)[2]
           capacity == Head(es)[3]
           key == edge_key(u, v)
       IN IF capacity <= 0
            THEN CongLoop(L, Tail(es), Put(congestions, key, Inf))
            ELSE CongLoop(L, Tail(es),
                          Put(congestions, key, Ratio(dist(L, u, v), capacity)))

compute_edge_congestion(g, t, L, ct) ==
  CongLoop(set_edge_weights(L, ct), iter_edges(g), <<>>)

\* ------------------------------------------------------------------ cuts
RECURSIVE CutLoop(_, _)
CutLoop(es, subset) ==
  IF es = <<>> THEN 0
  ELSE (IF (Head(es)[1] \in subset) # (Head(es)[2] \in subset) THEN Head(es)[3] ELSE 0)
         + CutLoop(Tail(es), subset)

\* cuts.cut_capacity
cut_capacity(g, subset) == CutLoop(iter_edges(g), subset)

ToSet(s) == {s[i] : i \in 1..Len(s)}

\* ----------------------------------------------------------- SPT oracle
\* networkx.dijkstra_predecessor_and_distance(graph, root, weight), as
\* networkx implements it (_dijkstra_multisource): a heap of
\* (distance, push counter, node), `seen` the tentative distances, `dist`
\* the final ones, pred[u] reset on a strict improvement and appended to on
\* a tie.  weight(v, u) = lengths[edge_key(v, u)] (spt.py lines 16-17).
HeapMin(fringe) ==
  CHOOSE i \in 1..Len(fringe) :
    \A j \in 1..Len(fringe) :
      \/ fringe[i][1] < fringe[j][1]
      \/ (fringe[i][1] = fringe[j][1] /\ fringe[i][2] <= fringe[j][2])

RemoveAt(s, i) == SubSeq(s, 1, i - 1) \o SubSeq(s, i + 1, Len(s))

RECURSIVE Relax(_, _, _, _)
Relax(lengths, v, nbrs, st) ==
  IF nbrs = <<>> THEN st
  ELSE LET u == Head(nbrs)[1]
           vu_dist == st.dist[v] + Get(lengths, edge_key(v, u))
           st1 ==
             IF u \in DOMAIN st.dist
               THEN IF vu_dist = st.dist[u]
                      THEN [st EXCEPT !.pred = Put(@, u, Append(Get(st.pred, u), v))]
                      ELSE st
               ELSE IF u \notin DOMAIN st.seen \/ vu_dist < st.seen[u]
                 THEN [st EXCEPT !.seen = (u :> vu_dist) @@ @,
                                 !.fringe = Append(@, <<vu_dist, st.c, u>>),
                                 !.c = @ + 1,
                                 !.pred = Put(@, u, <<v>>)]
               ELSE IF vu_dist = st.seen[u]
                 THEN [st EXCEPT !.pred = Put(@, u, Append(Get(st.pred, u), v))]
               ELSE st
       IN Relax(lengths, v, Tail(nbrs), st1)

RECURSIVE DijkstraLoop(_, _, _)
DijkstraLoop(g, lengths, st) ==
  IF st.fringe = <<>> THEN st
  ELSE LET i == HeapMin(st.fringe)
           d == st.fringe[i][1]
           v == st.fringe[i][3]
           popped == [st EXCEPT !.fringe = RemoveAt(@, i)]
       IN IF v \in DOMAIN st.dist THEN DijkstraLoop(g, lengths, popped)
          ELSE DijkstraLoop(g, lengths,
                 Relax(lengths, v, g.adj[v],
                       [popped EXCEPT !.dist = (v :> d) @@ @]))

dijkstra_predecessor_and_distance(g, lengths, root) ==
  DijkstraLoop(g, lengths,
    [dist |-> <<>>, seen |-> (root :> 0), fringe |-> <<(<<0, 0, root>>)>>,
     c |-> 1, pred |-> <<(<<root, <<>> >>)>>])

\* spt.py lines 20-24: parent from the predecessor lists, in preds order.
RECURSIVE ParentFromPreds(_, _, _)
ParentFromPreds(preds, root, parent) ==
  IF preds = <<>> THEN parent
  ELSE LET node == Head(preds)[1]
           plist == Head(preds)[2]
       IN IF node = root THEN ParentFromPreds(Tail(preds), root, parent)
          ELSE ParentFromPreds(Tail(preds), root,
                 Put(parent, node, IF plist # <<>> THEN plist[1] ELSE None))

\* Mutant of FillMissing: a node Dijkstra did not reach gets parent None.
RECURSIVE FillMissing_none(_, _, _)
FillMissing_none(ns, root, parent) ==
  IF ns = <<>> THEN parent
  ELSE FillMissing_none(Tail(ns), root, SetDefault(parent, Head(ns), None))

\* spt.py lines 26-27: nodes Dijkstra did not reach get parent root.
RECURSIVE FillMissing(_, _, _)
FillMissing(ns, root, parent) ==
  IF ns = <<>> THEN parent
  ELSE FillMissing(Tail(ns), root,
         SetDefault(parent, Head(ns), IF Head(ns) = root THEN None ELSE root))

spt_parent(g, lengths, root) ==
  FillMissing(g.nodes, root,
    ParentFromPreds(dijkstra_predecessor_and_distance(g, lengths, root).pred,
                    root, <<(<<root, None>>)>>))

shortest_path_tree(g, lengths, root) ==
  from_parent_map(root, spt_parent(g, lengths, root))

\* ====================================================================
\* MWU driver (cli.run_mwu), cut extractor and report assembly.
\*
\* Floats.  weights[e] is multiplied by math.exp(eta * (val / alpha - 1)):
\* a positive factor that depends on eta and alpha.  The model keeps the
\* weights as positive integers and lets every update choose any positive
\* weight per edge (1..MaxWeight), which covers every eta and alpha; the
\* first iteration runs on the code's initial weights 1.0.  probs and
\* lengths are kept up to the common positive factors 1 / total_w and
\* 1 / CapProduct, which do not change the order of the exact values.
\*
\* Rounding.  The code computes in binary floats.  A quotient kept here as
\* <<numerator, denominator>> is the float's exact value when the
\* denominator is a power of two (FloatExact); otherwise the float may be
\* off by a rounding error, far smaller than the gap between two different
\* quotients of the model.  So a comparison of two different exact values
\* comes out as in the code, and a comparison of two equal exact values of
\* which one may be rounded can come out either way: min() and sort() then
\* have several possible results, and the operators below return the set of
\* them.  Within the bounds the path lengths Dijkstra compares are
\* power-of-two multiples of one float, on which its sums are exact.
\* ====================================================================
Zero == Ratio(0, 1)
RatAdd(r, q) ==
  IF r[2] = q[2] THEN <<r[1] + q[1], r[2]>>
  ELSE <<r[1] * q[2] + q[1] * r[2], r[2] * q[2]>>
RatMul(r, q) == <<r[1] * q[1], r[2] * q[2]>>
\* r >= q and r = q on the exact values, for positive denominators
RatGE(r, q) == r[1] * q[2] >= q[1] * r[2]
RatSame(r, q) == r[1] * q[2] = q[1] * r[2]

RECURSIVE IsPow2(_)
IsPow2(n) == n = 1 \/ (n > 1 /\ n % 2 = 0 /\ IsPow2(n \div 2))

\* The float computed for the quotient r is exactly r.
FloatExact(r) == IsPow2(r[2])

\* The possible values of the float comparison x >= y, for floats computed
\* for the quotients r and q.
FloatGE(r, q) ==
  IF RatSame(r, q) /\ ~(FloatExact(r) /\ FloatExact(q)) THEN {TRUE, FALSE}
  ELSE {RatGE(r, q)}

RECURSIVE Product(_)
Product(d) == IF d = <<>> THEN 1 ELSE Head(d)[2] * Product(Tail(d))

CapProduct(caps) == Product(caps)

\* {e: v for e in d}: the same keys in the same order.
ConstDict(d, v) == [i \in 1..Len(d) |-> <<d[i][1], v>>]

\* expected_cong[edge] += weight * val, for edge, val in cong.items()
add_scaled(expected_cong, cg, weight) ==
  [i \in 1..Len(expected_cong) |->
     <<expected_cong[i][1],
       IF Has(cg, expected_cong[i][1])
         THEN RatAdd(expected_cong[i][2], RatMul(weight, Get(cg, expected_cong[i][1])))
         ELSE expected_cong[i][2]>>]

\* lengths = {e: probs[e] / capacities[e]} with probs[e] = weights[e] / total_w
\* (lines 68-70), times total_w * CapProduct.
lengths_of(weights, caps) ==
  LET D == CapProduct(caps)
  IN [i \in 1..Len(caps) |->
        <<caps[i][1], Get(weights, caps[i][1]) * (D \div caps[i][2])>>]

\* obj = sum(probs[e] * cong[e] for e in cong) (line 79), times
\* total_w * CapProduct.
RECURSIVE ObjSum(_, _, _)
ObjSum(weights, cg, D) ==
  IF cg = <<>> THEN 0
  ELSE Get(weights, Head(cg)[1]) * Head(cg)[2][1] * (D \div Head(cg)[2][2])
         + ObjSum(weights, Tail(cg), D)

\* One candidate (lines 74-80) for the drawn root: [ok, obj, tree, cong].
candidate(g, weights, caps, root) ==
  LET t == shortest_path_tree(g, lengths_of(weights, caps), root)
      L == LCA(t)
      r == compute_tree_capacities(g, t, L)
      cg == compute_edge_congestion(g, t, L, r.c_t)
  IN IF ~t.ok \/ ~r.ok THEN [ok |-> FALSE]
     ELSE [ok |-> TRUE, obj |-> ObjSum(weights, cg, CapProduct(caps)),
           tree |-> t, cong |-> cg]

\* The loop `for _ in range(r)` over the drawn roots (lines 71-80).
RECURSIVE candidates(_, _, _, _)
candidates(g, weights, caps, roots) ==
  IF roots = <<>> THEN <<>>
  ELSE <<candidate(g, weights, caps, Head(roots))>>
         \o candidates(g, weights, caps, Tail(roots))

\* probs, cong and obj (lines 68-79) are computed without rounding: total_w
\* and every capacity are powers of two (weights being small integers).
obj_exact(weights, caps) ==
  /\ IsPow2(SeqSum([i \in 1..Len(weights) |-> weights[i][2]]))
  /\ \A i \in 1..Len(caps) : IsPow2(caps[i][2])

\* min(candidates, key=lambda x: x[0]): the candidates min() can return.
\* It returns the first candidate of least float obj: the first of least
\* exact obj when the objs are computed exactly, and otherwise any of least
\* exact obj (rounding decides between equal exact values).
min_candidate(cands, exact) ==
  { cands[i] : i \in { k \in 1..Len(cands) :
      /\ \A j \in 1..Len(cands) : cands[k].obj <= cands[j].obj
      /\ exact => \A j \in 1..(k - 1) : cands[j].obj > cands[k].obj } }

\* sorted(...) of edge keys, as tuples.
RECURSIVE InsertKey(_, _)
InsertKey(s, k) ==
  IF s = <<>> THEN <<k>>
  ELSE IF KeyLess(k, Head(s)) THEN <<k>> \o s
  ELSE <<Head(s)>> \o InsertKey(Tail(s), k)

RECURSIVE SortKeys(_)
SortKeys(s) ==
  IF s = <<>> THEN <<>>
  ELSE InsertKey(SortKeys(SubSeq(s, 1, Len(s) - 1)), s[Len(s)])

\* cli._tree_signature
_tree_signature(t) ==
  SortKeys([i \in 1..Len(edges(t)) |-> edge_key(edges(t)[i][1], edges(t)[i][2])])

\* cli._tree_to_record
_tree_to_record(t, count, total) ==
  [root |-> t.root,
   edges |-> edges(t),
   count |-> count,
   prob |-> IF total # 0 THEN Ratio(count, total) ELSE Zero]

\* The loop `for u, v in edges: parent[v] = u` of _record_to_tree.
RECURSIVE ParentFromEdges(_, _)
ParentFromEdges(es, parent) ==
  IF es = <<>> THEN parent
  ELSE ParentFromEdges(Tail(es), Put(parent, Head(es)[2], Head(es)[1]))

\* cli._record_to_tree
_record_to_tree(record, ns) ==
  from_parent_map(record.root,
    FillMissing(ns, record.root,
      ParentFromEdges(record.edges, <<(<<record.root, None>>)>>)))

\* Mutant of mixture_add: a signature already present keeps its count.
mixture_add_no_increment(mc, t) ==
  LET sig == _tree_signature(t)
  IN IF ~Has(mc, sig) THEN Put(mc, sig, [tree |-> t, count |-> 1]) ELSE mc

\* Lines 88-91: the chosen tree's signature gets its count incremented, a
\* new signature starting at 0 with the tree as representative.
mixture_add(mc, t) ==
  LET sig == _tree_signature(t)
      mc1 == IF ~Has(mc, sig) THEN Put(mc, sig, [tree |-> t, count |-> 0]) ELSE mc
  IN Put(mc1, sig, [Get(mc1, sig) EXCEPT !.count = @ + 1])

\* list.sort(key=count, reverse=True): stable, largest count first.
RECURSIVE InsertByCountDesc(_, _)
InsertByCountDesc(s, x) ==
  IF s = <<>> THEN <<x>>
  ELSE IF Head(s).count >= x.count THEN <<Head(s)>> \o InsertByCountDesc(Tail(s), x)
  ELSE <<x>> \o s

RECURSIVE SortByCountDesc(_)
SortByCountDesc(s) ==
  IF s = <<>> THEN <<>>
  ELSE InsertByCountDesc(SortByCountDesc(SubSeq(s, 1, Len(s) - 1)), s[Len(s)])

\* Lines 93-97: the records of mixture_counts.values(), sorted.
mixture_records(mc, iters) ==
  SortByCountDesc([i \in 1..Len(mc) |->
                     _tree_to_record(mc[i][2].tree, mc[i][2].count, iters)])

\* list.sort(key=capacity): stable, ascending.
RECURSIVE InsertByCapacity(_, _)
InsertByCapacity(s, x) ==
  IF s = <<>> THEN <<x>>
  ELSE IF Head(s).capacity <= x.capacity THEN <<Head(s)>> \o InsertByCapacity(Tail(s), x)
  ELSE <<x>> \o s

RECURSIVE SortByCapacity(_)
SortByCapacity(s) ==
  IF s = <<>> THEN <<>>
  ELSE InsertByCapacity(SortByCapacity(SubSeq(s, 1, Len(s) - 1)), s[Len(s)])

\* The loop of extract_tree_cuts over tree.edges() (lines 32-38).
RECURSIVE tree_cuts(_, _, _)
tree_cuts(g, t, es) ==
  IF es = <<>> THEN <<>>
  ELSE LET ns == subtree_nodes(t, Head(es)[2])
       IN <<[edge |-> Head(es),
             capacity |-> cut_capacity(g, ToSet(ns)),
             nodes |-> ns]>> \o tree_cuts(g, t, Tail(es))

\* cuts.extract_tree_cuts with top_k = None.
extract_tree_cuts(g, t) == SortByCapacity(tree_cuts(g, t, edges(t)))

\* all_cuts: the cuts of each record's tree, one list after the other
\* (cli.py lines 138-141 and 168-177).
RECURSIVE all_cuts(_, _)
all_cuts(g, mixture) ==
  IF mixture = <<>> THEN <<>>
  ELSE extract_tree_cuts(g, _record_to_tree(Head(mixture), g.nodes))
         \o all_cuts(g, Tail(mixture))

TopKCuts == 10
TopKEdges == 10
MaxCutNodes == 30

Prefix(s, n) == SubSeq(s, 1, IF Len(s) < n THEN Len(s) ELSE n)

\* The records of critical_edges before the sort (lines 15-24).
RECURSIVE edge_records(_, _)
edge_records(es, expected_cong) ==
  IF es = <<>> THEN <<>>
  ELSE LET e == Head(es)
           key == edge_key(e[1], e[2])
       IN <<[edge |-> <<e[1], e[2]>>,
             capacity |-> e[3],
             expected_congestion |->
               IF Has(expected_cong, key) THEN Get(expected_cong, key) ELSE Zero]>>
            \o edge_records(Tail(es), expected_cong)

\* records.sort(key=expected_congestion, reverse=True): the possible results
\* of the stable sort, largest float first.  p lists the records' old
\* positions; a record stays before a later one when its float can be >=,
\* and moves before an earlier one when its float can be strictly larger.
SortedByExpectedDesc(recs) ==
  LET n == Len(recs)
      x(i) == recs[i].expected_congestion
      perms == { p \in [1..n -> 1..n] : \A i, j \in 1..n : i # j => p[i] # p[j] }
      can(p) == \A i, j \in 1..n :
                  i < j => IF p[i] < p[j] THEN TRUE \in FloatGE(x(p[i]), x(p[j]))
                           ELSE FALSE \in FloatGE(x(p[j]), x(p[i]))
  IN { [i \in 1..n |-> recs[p[i]]] : p \in { q \in perms : can(q) } }

\* report.critical_edges: the lists it can return.
critical_edges(g, expected_cong, top_k) ==
  { Prefix(srt, top_k) : srt \in SortedByExpectedDesc(edge_records(iter_edges(g), expected_cong)) }

\* report.assemble_report: the reports it can return (one, unless rounding
\* decides the order of critical_edges).  params holds the echoed iters and
\* candidates; seed and alpha, echoed the same way, are not kept.
assemble_report(g, mixture, expected_cong, cuts, params) ==
  { [graph |-> [nodes |-> Len(g.nodes), edges |-> Len(iter_edges(g))],
     parameters |-> params,
     mixture |-> [unique_trees |-> Len(mixture),
                  total_samples |-> SeqSum([i \in 1..Len(mixture) |-> mixture[i].count]),
                  trees |-> mixture],
     critical_edges |-> ce,
     bottleneck_cuts |->
       [i \in 1..Len(Prefix(cuts, TopKCuts)) |->
          [edge |-> cuts[i].edge,
           capacity |-> cuts[i].capacity,
           nodes |-> Prefix(cuts[i].nodes, MaxCutNodes),
           truncated |-> Len(cuts[i].nodes) > MaxCutNodes]]] :
    ce \in critical_edges(g, expected_cong, TopKEdges) }

\* ====================================================================
\* SpecTree: Tree.__init__ run step by step on an arbitrary (root, parent),
\* then LCA queries on the Tree it returns.
\* ====================================================================
Idle == [k |-> 0]
NoQuery == <<>>
NoReport == <<>>

\* All dicts with keys in `ks` (ascending insertion order) and values in vals.
RECURSIVE DictsOver(_, _)
DictsOver(ks, vals) ==
  IF ks = <<>> THEN {<<>>}
  ELSE {<<(<<Head(ks), v>>)>> \o d : v \in vals, d \in DictsOver(Tail(ks), vals)}

RECURSIVE SortedSeq(_)
SortedSeq(S) ==
  IF S = {} THEN <<>>
  ELSE LET m == CHOOSE x \in S : \A y \in S : x <= y
       IN <<m>> \o SortedSeq(S \ {m})

ParentMaps == UNION {DictsOver(SortedSeq(K), {None} \cup Labels) : K \in SUBSET Labels}

InitTree ==
  /\ pc = "new"
  /\ in_root \in Labels
  /\ in_parent \in ParentMaps
  /\ tree = NoTree
  /\ queue = <<>>
  /\ query = NoQuery
  /\ graph = EmptyGraph
  /\ c_t = <<>>
  /\ cong = <<>>
  /\ lines = <<>>
  /\ via = "none"
  /\ mwu = Idle
  /\ report = NoReport
  /\ in_lengths = <<>>

\* Tree.__init__, lines 13-26.
TreeBegin ==
  /\ pc = "new"
  /\ LET s == TreeStart(in_root, in_parent)
     IN IF s.ok
          THEN pc' = "bfs" /\ tree' = s.t /\ queue' = s.q
          ELSE pc' = "raised" /\ UNCHANGED <<tree, queue>>
  /\ UNCHANGED <<in_root, in_parent, query, graph, c_t, cong, lines, via, mwu, report, in_lengths>>

\* Tree.__init__, one iteration of the while loop (lines 27-32).
TreeBfs ==
  /\ pc = "bfs"
  /\ queue # <<>>
  /\ Len(tree.bfs_order) < MaxBfsLen
  /\ LET s == BfsStep(tree, queue)
     IN tree' = s.t /\ queue' = s.q
  /\ UNCHANGED <<pc, in_root, in_parent, query, graph, c_t, cong, lines, via, mwu, report, in_lengths>>

\* Tree.__init__, lines 34-36: raise on unreached keys, else return.
TreeEnd ==
  /\ pc = "bfs"
  /\ queue = <<>>
  /\ pc' = IF missing_depth(tree) # {} THEN "raised" ELSE "returned"
  /\ UNCHANGED <<in_root, in_parent, tree, queue, query, graph, c_t, cong, lines, via, mwu, report, in_lengths>>

\* LCA(tree).lca(u, v) on the returned Tree.
LcaQuery ==
  /\ pc = "returned"
  /\ \E u \in Keys(tree.parent), v \in Keys(tree.parent) :
       query' = <<u, v, lca(LCA(tree), u, v)>>
  /\ UNCHANGED <<pc, in_root, in_parent, tree, queue, graph, c_t, cong, lines, via, mwu, report, in_lengths>>

NextTree == TreeBegin \/ TreeBfs \/ TreeEnd \/ LcaQuery

SpecTree == InitTree /\ [][NextTree]_vars

\* ---- reference notions, independent of the BFS and of the table
\* Nodes reachable from root through the children relation (child -> parent
\* read backwards), by closure.
RECURSIVE ReachClosure(_, _, _)
ReachClosure(parent, S, n) ==
  IF n = 0 THEN S
  ELSE ReachClosure(parent,
                    S \cup {k \in Keys(parent) : Get(parent, k) \in S}, n - 1)

Reachable(root, parent) == ReachClosure(parent, {root}, Len(parent))

\* The parent chain of u: u, parent[u], ... while the value is a key.
RECURSIVE Chain(_, _, _)
Chain(parent, u, n) ==
  IF n = 0 \/ ~Has(parent, u) THEN {}
  ELSE {u} \cup Chain(parent, Get(parent, u), n - 1)

AncestorsOrSelf(t, u) == Chain(t.parent, u, Len(t.parent))

CommonAncestors(t, u, v) == AncestorsOrSelf(t, u) \cap AncestorsOrSelf(t, v)

IsDeepestCommonAncestor(t, u, v, a) ==
  /\ a \in CommonAncestors(t, u, v)
  /\ \A b \in CommonAncestors(t, u, v) : t.depth[b] <= t.depth[a]

\* C3: on every returned Tree and for every pair of its nodes (u = v and
\* ancestor pairs included), lca(u, v) is the deepest node that is an
\* ancestor-or-self of both, so its depth is at most min(depth[u], depth[v]).
C3_LcaIsDeepestCommonAncestor ==
  (pc = "returned" /\ query # NoQuery) =>
     /\ IsDeepestCommonAncestor(tree, query[1], query[2], query[3])
     /\ tree.depth[query[3]] <= tree.depth[query[1]]
     /\ tree.depth[query[3]] <= tree.depth[query[2]]

\* A query on two nodes in different branches whose LCA is neither of them
\* nor the root.
C3_Witness ==
  /\ pc = "returned"
  /\ query # NoQuery
  /\ query[3] \notin {query[1], query[2], tree.root}
  /\ IsDeepestCommonAncestor(tree, query[1], query[2], query[3])

\* C10 as claimed: a Tree is returned only when root is a key, parent[root]
\* is None and every key is reachable from root.
C10_ReturnsOnlyValidTrees ==
  pc = "returned" =>
     /\ Has(in_parent, in_root)
     /\ Get(in_parent, in_root) = None
     /\ Keys(in_parent) \subseteq Reachable(in_root, in_parent)

\* ====================================================================
\* SpecCong: load_graph line by line, then one candidate evaluation as in
\* cli.py lines 75-78 / the tests: a tree, LCA(tree),
\* compute_tree_capacities, compute_edge_congestion.
\* ====================================================================
\* The parent maps over the nodes ns (keys in that order) in which root has
\* parent None and every other node a parent among ns.
RECURSIVE ParentsOver(_, _, _)
ParentsOver(ns, all, root) ==
  IF ns = <<>> THEN {<<>>}
  ELSE {<<(<<Head(ns), p>>)>> \o d :
          p \in (IF Head(ns) = root THEN {None} ELSE all \ {Head(ns)}),
          d \in ParentsOver(Tail(ns), all, root)}

\* The rooted trees over ns: every (root, parent) above on which
\* Tree.__init__ returns.
RootedTrees(ns) ==
  {rp \in UNION {{<<r, p>> : p \in ParentsOver(ns, ToSet(ns), r)} : r \in ToSet(ns)} :
     from_parent_map(rp[1], rp[2]).ok}

InitCong ==
  /\ pc = "load"
  /\ in_root = None
  /\ in_parent = <<>>
  /\ tree = NoTree
  /\ queue = <<>>
  /\ query = NoQuery
  /\ graph = EmptyGraph
  /\ c_t = <<>>
  /\ cong = <<>>
  /\ lines = <<>>
  /\ via = "none"
  /\ mwu = Idle
  /\ report = NoReport
  /\ in_lengths = <<>>

\* The edge lines "u v w" that may come next in the file when files are
\* enumerated one per simple graph: u before v, the keys ascending down the
\* file, the capacity from ws.
SimpleLines(ns, ws) ==
  {l \in ns \X ns \X ws :
     /\ l[1] < l[2]
     /\ IF lines = <<>> THEN TRUE
        ELSE KeyLess(edge_key(lines[Len(lines)][1], lines[Len(lines)][2]),
                     edge_key(l[1], l[2]))}

\* The edge lines that may come next when a file may hold anything that
\* load_graph reads: either orientation of an edge, self-loops, a pair that
\* an earlier line has named already (merged by summing), the capacity from
\* ws.  Files are enumerated up to the order of their keys, which never
\* descend.
KeyOrderedLines(ns, ws) ==
  {l \in ns \X ns \X ws :
     IF lines = <<>> THEN TRUE
     ELSE ~KeyLess(edge_key(l[1], l[2]),
                   edge_key(lines[Len(lines)][1], lines[Len(lines)][2]))}

\* load_graph, one edge line "u v w" out of ls, of a file of at most maxLines
\* lines.  load_graph takes the line as it comes: float(w) is any number,
\* u = v is added as a self-loop, a known pair is merged.
LoadLineOver(ls, maxLines) ==
  /\ pc = "load"
  /\ Len(lines) < maxLines
  /\ \E l \in ls :
       /\ lines' = Append(lines, l)
       /\ graph' = load_edge(graph, l[1], l[2], l[3])
  /\ UNCHANGED <<pc, in_root, in_parent, tree, queue, query, c_t, cong, via, mwu, report, in_lengths>>

\* Files of simple graphs with positive capacities.
LoadLine == LoadLineOver(SimpleLines(Labels, 1..MaxCap), MaxEdges)

\* lca = LCA(tree); c_t = compute_tree_capacities; cong = compute_edge_congestion;
\* nothing is computed when the tree's constructor has raised.
Evaluate(t, how) ==
  LET L == LCA(t)
      r == compute_tree_capacities(graph, t, L)
  IN /\ tree' = t
     /\ via' = how
     /\ IF t.ok /\ r.ok
          THEN /\ c_t' = r.c_t
               /\ cong' = compute_edge_congestion(graph, t, L, r.c_t)
               /\ pc' = "evaluated"
          ELSE /\ c_t' = <<>>
               /\ cong' = <<>>
               /\ pc' = "raised"

\* A rooted spanning tree of the graph's nodes, given as (root, parent).
EvalTree ==
  /\ pc = "load"
  /\ graph.nodes # <<>>
  /\ \E rp \in RootedTrees(graph.nodes) :
       /\ in_root' = rp[1]
       /\ in_parent' = rp[2]
       /\ Evaluate(from_parent_map(rp[1], rp[2]), "tree")
  /\ UNCHANGED <<queue, query, graph, lines, mwu, report, in_lengths>>

\* tree = shortest_path_tree(graph, lengths, root) for positive lengths.
EvalSpt ==
  /\ pc = "load"
  /\ graph.nodes # <<>>
  /\ \E root \in ToSet(graph.nodes),
        lengths \in DictsOver(KeySeq(capacities(graph)), 1..MaxLen) :
       /\ in_root' = root
       /\ in_lengths' = lengths
       /\ in_parent' = spt_parent(graph, lengths, root)
       /\ Evaluate(shortest_path_tree(graph, lengths, root), "spt")
  /\ UNCHANGED <<queue, query, graph, lines, mwu, report>>

NextCong == LoadLine \/ EvalTree \/ EvalSpt

SpecCong == InitCong /\ [][NextCong]_vars

CapLabels == 1..CapNodes

CapValues == (0 - MaxNegCap)..MaxPosCap

LoadLineCap == LoadLineOver(KeyOrderedLines(CapLabels, CapValues), MaxCapLines)

NextCap == LoadLineCap \/ EvalSpt

SpecCap == InitCong /\ [][NextCap]_vars

\* C8: on every graph and every tree returned by shortest_path_tree on it,
\* compute_edge_congestion returns one entry per graph edge, keyed by the
\* canonical key, and a value >= 0 for every graph edge with positive
\* capacity.
C8_CongestionNonNegative ==
  (pc = "evaluated" /\ via = "spt") =>
     /\ Len(cong) = Len(iter_edges(graph))
     /\ Keys(cong) = {edge_key(e[1], e[2]) : e \in ToSet(iter_edges(graph))}
     /\ \A k \in Keys(cong) : k[1] <= k[2]
     /\ \A e \in ToSet(iter_edges(graph)) :
          e[3] > 0 => RatGE0(Get(cong, edge_key(e[1], e[2])))

\* Scenario S3: the 4-cycle A-B-C-D-A (1-2-3-4-1), all capacities 1, and the
\* tree {A-B, A-D, B-C} rooted at A, evaluated.
S3 ==
  /\ pc = "evaluated"
  /\ ToSet(capacities(graph)) =
       {<< <<1, 2>>, 1>>, << <<2, 3>>, 1>>, << <<3, 4>>, 1>>, << <<1, 4>>, 1>>}
  /\ tree.root = 1
  /\ ToSet(tree.parent) = {<<1, None>>, <<2, 1>>, <<3, 2>>, <<4, 1>>}

\* C9 as claimed: in S3, c_T(A,B) = 2, c_T(A,D) = 2 and c_T(B,C) = 1.
C9_S3_AsClaimed ==
  S3 => /\ Get(c_t, <<1, 2>>) = 2
        /\ Get(c_t, <<1, 4>>) = 2
        /\ Get(c_t, <<2, 3>>) = 1

\* C9 amended: in S3, c_T(A,B) = 2, c_T(A,D) = 2 and c_T(B,C) = 2 (the cut
\* {C} is crossed by B-C and by C-D).
C9_S3_Amended ==
  S3 => /\ Get(c_t, <<1, 2>>) = 2
        /\ Get(c_t, <<1, 4>>) = 2
        /\ Get(c_t, <<2, 3>>) = 2

\* S3 is reached with the three tree capacities computed.
C9_Witness == S3 /\ Keys(c_t) = {<<1, 2>>, <<1, 4>>, <<2, 3>>}

\* ====================================================================
\* SpecMwu: the commands `fit` (load_graph, run_mwu, report) and `report`
\* (load_graph, a stored mixture, report) on graphs over MwuNodes labels.
\* ====================================================================
MwuLabels == 1..MwuNodes

\* Files of simple graphs with positive capacities: with a capacity <= 0 the
\* weights, objectives and lengths of run_mwu become inf or nan, which the
\* quotients of this model do not represent.
LoadLineMwu == LoadLineOver(SimpleLines(MwuLabels, 1..MaxCap), MaxEdges)

\* run_mwu up to the loop (lines 59-65).
FitBegin ==
  /\ pc = "load"
  /\ lines # <<>>
  /\ \E iters \in 0..MaxIters, r \in 0..MaxCands :
       mwu' = [k |-> 0, iters |-> iters, r |-> r,
               weights |-> ConstDict(capacities(graph), 1),
               expected_cong |-> ConstDict(capacities(graph), Zero),
               mixture_counts |-> <<>>,
               mixture |-> <<>>,
               roots |-> <<>>]
  /\ pc' = "mwu"
  /\ via' = "fit"
  /\ UNCHANGED <<in_root, in_parent, tree, queue, query, graph, c_t, cong, lines, report, in_lengths>>

\* expected_cong[edge] += val / iters, for edge, val in cong.items()
add_expected(expected_cong, cg, iters) ==
  add_scaled(expected_cong, cg, Ratio(1, iters))

\* One iteration of the loop of run_mwu (lines 66-91): r roots are drawn,
\* the candidate of least obj is kept, the weights are updated.  Only in the
\* first iteration are the model's weights the code's (1.0 each); later they
\* stand for floats, so equal exact objs do not tell which candidate min()
\* meets first.
MwuIteration ==
  /\ pc = "mwu"
  /\ mwu.k < mwu.iters
  /\ IF mwu.r = 0
       THEN /\ pc' = "raised"
            /\ UNCHANGED <<tree, cong, mwu>>
       ELSE \E roots \in [1..mwu.r -> ToSet(graph.nodes)] :
              LET cands == candidates(graph, mwu.weights, capacities(graph), roots)
              IN IF \E j \in 1..mwu.r : ~cands[j].ok
                   THEN /\ pc' = "raised"
                        /\ UNCHANGED <<tree, cong, mwu>>
                   ELSE \E best \in min_candidate(cands,
                                     mwu.k = 0 /\ obj_exact(mwu.weights, capacities(graph))) :
                        LET ec == add_expected(mwu.expected_cong, best.cong, mwu.iters)
                            mc == mixture_add(mwu.mixture_counts, best.tree)
                        IN /\ tree' = best.tree
                           /\ cong' = best.cong
                           /\ \E nw \in DictsOver(KeySeq(mwu.weights), 1..MaxWeight) :
                                mwu' = [mwu EXCEPT !.k = @ + 1,
                                                   !.weights = nw,
                                                   !.expected_cong = ec,
                                                   !.mixture_counts = mc,
                                                   !.roots = roots]
                           /\ pc' = "mwu"
  /\ UNCHANGED <<in_root, in_parent, queue, query, graph, c_t, lines, via, report, in_lengths>>

\* The end of run_mwu (lines 93-98).
RunMwuReturn ==
  /\ pc = "mwu"
  /\ mwu.k = mwu.iters
  /\ mwu' = [mwu EXCEPT !.mixture = mixture_records(mwu.mixture_counts, mwu.iters)]
  /\ pc' = "returned"
  /\ UNCHANGED <<in_root, in_parent, tree, queue, query, graph, c_t, cong, lines, via, report, in_lengths>>

\* The rest of fit (lines 138-150): all_cuts and report.json.
FitReport ==
  /\ pc = "returned"
  /\ report' \in assemble_report(graph, mwu.mixture, mwu.expected_cong,
                                 all_cuts(graph, mwu.mixture),
                                 [iters |-> mwu.iters, candidates |-> mwu.r])
  /\ pc' = "reported"
  /\ UNCHANGED <<in_root, in_parent, tree, queue, query, graph, c_t, cong, lines, via, mwu, in_lengths>>

\* The loop of report_cmd over the stored records (lines 168-176), for
\* expected_cong: [ok, expected_cong].
RECURSIVE stored_expected(_, _, _, _)
stored_expected(g, records, total_samples, expected_cong) ==
  IF records = <<>> THEN [ok |-> TRUE, expected_cong |-> expected_cong]
  ELSE LET rec == Head(records)
           t == _record_to_tree(rec, g.nodes)
           L == LCA(t)
           r == compute_tree_capacities(g, t, L)
           cg == compute_edge_congestion(g, t, L, r.c_t)
           weight == Ratio(rec.count, total_samples)
       IN IF ~t.ok \/ ~r.ok THEN [ok |-> FALSE]
          ELSE stored_expected(g, Tail(records), total_samples,
                 add_scaled(expected_cong, cg, weight))

\* All orders of the elements of the sequence s.
Perms(s) ==
  { [i \in 1..Len(s) |-> s[p[i]]] :
      p \in { q \in [1..Len(s) -> 1..Len(s)] :
                \A i, j \in 1..Len(s) : i # j => q[i] # q[j] } }

\* The "trees" of a mixture.json: up to MaxStored records of spanning trees
\* of the graph, of different signatures, each with its edges (parent,
\* child) in any order, with positive counts, largest count first, and
\* prob = count / total.  Every list fit writes with iters <= MaxIters is
\* one of them (its edge order is that of the shortest-path tree's parent
\* dict), the empty list of iters = 0 included.
StoredMixtures(g) ==
  LET trees == { t \in { from_parent_map(rp[1], rp[2]) : rp \in RootedTrees(g.nodes) } :
                   \A i \in 1..Len(edges(t)) : has_edge(g, edges(t)[i][1], edges(t)[i][2]) }
      recs == UNION { { [tree |-> t, edges |-> es, count |-> n] :
                          es \in Perms(edges(t)), n \in 1..MaxIters } : t \in trees }
      seqs == UNION { [1..n -> recs] : n \in 0..MaxStored }
      total(m) == SeqSum([i \in 1..Len(m) |-> m[i].count])
  IN { [i \in 1..Len(m) |->
          [_tree_to_record(m[i].tree, m[i].count, total(m)) EXCEPT !.edges = m[i].edges]] :
         m \in { q \in seqs :
                   /\ \A i \in 1..(Len(q) - 1) : q[i].count >= q[i + 1].count
                   /\ \A i, j \in 1..Len(q) :
                        i < j => _tree_signature(q[i].tree) # _tree_signature(q[j].tree) } }

\* The command `report` on a stored mixture (lines 162-191); the payload's
\* iters is the total count, as fit writes it.
ReportCmd ==
  /\ pc = "load"
  /\ lines # <<>>
  /\ \E stored \in StoredMixtures(graph) :
       LET total_samples == SeqSum([i \in 1..Len(stored) |-> stored[i].count])
           ec == stored_expected(graph, stored, total_samples,
                   ConstDict(capacities(graph), Zero))
           cuts == all_cuts(graph, stored)
       IN IF ~ec.ok
            THEN /\ pc' = "raised"
                 /\ UNCHANGED <<mwu, report>>
            ELSE /\ mwu' = [k |-> 0, iters |-> 0, r |-> 0, weights |-> <<>>,
                            expected_cong |-> ec.expected_cong,
                            mixture_counts |-> <<>>, mixture |-> stored,
                            roots |-> <<>>]
                 /\ \E cand \in (IF stored = <<>> THEN 0 ELSE 1)..MaxCands :
                      report' \in assemble_report(graph, stored, ec.expected_cong, cuts,
                                    [iters |-> total_samples, candidates |-> cand])
                 /\ pc' = "reported"
  /\ via' = "report"
  /\ UNCHANGED <<in_root, in_parent, tree, queue, query, graph, c_t, cong, lines, in_lengths>>

NextMwu ==
  LoadLineMwu \/ FitBegin \/ MwuIteration \/ RunMwuReturn \/ FitReport \/ ReportCmd

SpecMwu == InitCong /\ [][NextMwu]_vars

SeqCount(mc) == SeqSum([i \in 1..Len(mc) |-> mc[i][2].count])

\* C4: in a run of run_mwu with iters >= 1 and r >= 1, every iteration adds
\* exactly one to one signature's count, so after k iterations the positive
\* counts sum to k; the returned records carry these counts, which sum to
\* iters, and probabilities count / iters, which sum to 1.
C4_CountsSumToIters ==
  (via = "fit" /\ pc \in {"mwu", "returned", "reported"} /\ mwu.iters >= 1 /\ mwu.r >= 1) =>
     /\ SeqCount(mwu.mixture_counts) = mwu.k
     /\ \A i \in 1..Len(mwu.mixture_counts) : mwu.mixture_counts[i][2].count >= 1
     /\ pc \in {"returned", "reported"} =>
          /\ Len(mwu.mixture) = Len(mwu.mixture_counts)
          /\ SeqSum([i \in 1..Len(mwu.mixture) |-> mwu.mixture[i].count]) = mwu.iters
          /\ \A i \in 1..Len(mwu.mixture) :
               /\ mwu.mixture[i].count >= 1
               /\ mwu.mixture[i].prob = Ratio(mwu.mixture[i].count, mwu.iters)
          /\ SeqSum([i \in 1..Len(mwu.mixture) |-> mwu.mixture[i].prob[1]]) = mwu.iters

\* run_mwu has returned a mixture of two different trees after two
\* iterations with two candidates each.
C4_Witness ==
  /\ via = "fit" /\ pc = "returned"
  /\ mwu.iters = 2 /\ mwu.r = 2
  /\ Len(mwu.mixture) = 2

\* C6: the bottleneck_cuts written to report.json are in ascending order of
\* capacity, also when the mixture has several trees.
C6_BottleneckCutsSorted ==
  pc = "reported" =>
     \A i \in 1..(Len(report.bottleneck_cuts) - 1) :
        report.bottleneck_cuts[i].capacity <= report.bottleneck_cuts[i + 1].capacity

\* C11: in an iteration of run_mwu with r <= |V| candidates the r roots
\* drawn (mwu.roots, one rng.choice(nodes) per candidate) are pairwise
\* distinct.
C11_RootsDistinct ==
  (via = "fit" /\ pc = "mwu" /\ mwu.k >= 1 /\ mwu.r <= Len(graph.nodes)) =>
     \A i, j \in 1..Len(mwu.roots) : i # j => mwu.roots[i] # mwu.roots[j]

\* Reference for C12: the vertices connected to the set S in the graph.
RECURSIVE Component(_, _)
Component(g, S) ==
  LET T == S \cup {m \in ToSet(g.nodes) : \E n \in S : has_edge(g, n, m)}
  IN IF T = S THEN S ELSE Component(g, T)

\* Reference for C12: shortest distances from root by Bellman-Ford rounds;
\* far is larger than the length of any path.
RECURSIVE SpRounds(_, _, _, _)
SpRounds(g, ls, D, n) ==
  IF n = 0 THEN D
  ELSE SpRounds(g, ls,
         [v \in DOMAIN D |->
            LET via_nbr == {D[u] + Get(ls, edge_key(u, v)) :
                              u \in {m \in DOMAIN D : has_edge(g, m, v)}}
                cands == via_nbr \cup {D[v]}
            IN CHOOSE d \in cands : \A e \in cands : d <= e],
         n - 1)

SpDist(g, ls, root) ==
  LET far == 1 + SeqSum([i \in 1..Len(ls) |-> ls[i][2]])
  IN SpRounds(g, ls, [v \in ToSet(g.nodes) |-> IF v = root THEN 0 ELSE far],
              Len(g.nodes))

\* C12: for every graph, connected or not, every positive length map and
\* every root, shortest_path_tree returns (without raising) a Tree over all
\* vertices of the graph with parent[root] = None; a vertex the root does not
\* reach has parent root, and a vertex it reaches has as parent the first
\* predecessor Dijkstra found, which is a neighbour on a shortest path.
C12_SptOverAllVertices ==
  (pc \in {"evaluated", "raised"} /\ via = "spt") =>
     LET reach == Component(graph, {in_root})
         D == SpDist(graph, in_lengths, in_root)
         preds == dijkstra_predecessor_and_distance(graph, in_lengths, in_root).pred
     IN /\ tree.ok
        /\ tree.root = in_root
        /\ tree.parent = in_parent
        /\ Keys(tree.parent) = ToSet(graph.nodes)
        /\ ToSet(tree.bfs_order) = ToSet(graph.nodes)
        /\ Get(tree.parent, in_root) = None
        /\ \A v \in ToSet(graph.nodes) \ {in_root} :
             IF v \in reach
               THEN /\ Get(tree.parent, v) = Get(preds, v)[1]
                    /\ has_edge(graph, Get(tree.parent, v), v)
                    /\ D[Get(tree.parent, v)] + Get(in_lengths, edge_key(Get(tree.parent, v), v))
                         = D[v]
               ELSE Get(tree.parent, v) = in_root

\* shortest_path_tree returned a tree on a disconnected graph: some vertex
\* is not reached from the root and hangs below it, another is reached
\* through a graph edge.
C12_Witness ==
  /\ pc = "evaluated" /\ via = "spt"
  /\ tree.ok
  /\ \E v \in ToSet(graph.nodes) \ Component(graph, {in_root}) :
       /\ Get(tree.parent, v) = in_root
       /\ ~has_edge(graph, in_root, v)
  /\ \E v \in Component(graph, {in_root}) \ {in_root} :
       has_edge(graph, Get(tree.parent, v), v)

====
